---- MODULE Spec2Model ----
(***************************************************************************)
(* Model of the "scan ble" node of node-red-contrib-noble                  *)
(* (src/noble/node-red-contrib-noble.js).                                  *)
(*                                                                         *)
(* The node runs on one event loop: every handler below runs to its end    *)
(* before the next one starts, so each handler is one action.  The calls   *)
(* noble.startScanning / noble.stopScanning only queue a request with the  *)
(* adapter; the callback given to them runs in a later turn of the loop,   *)
(* which is the pair of actions scanStart / scanStop.                      *)
(***************************************************************************)
EXTENDS Integers, Sequences, FiniteSets, TLC

\* Largest number of adapter calls whose completion is still to be delivered.
MaxPending == 3

\* Shortest manufacturer data taken for a beacon (line 60).
BeaconMinLen == 25

\* The values of noble.state.
AdapterStates ==
    {"unknown", "resetting", "unsupported", "unauthorized", "poweredOff", "poweredOn"}

VARIABLES
    nobleState,       \* noble.state
    listeners,        \* the 'discover' and 'stateChange' listeners are attached to noble
    scanning,         \* node.scanning (undefined, hence falsy, until a callback sets it)
    pending,          \* adapter calls whose callback has not run yet, oldest first
    adapterScanning,  \* whether the adapter is scanning (the last call it completed)
    timers,           \* the messages captured by the setTimeout callbacks still to run
    closed,           \* the node's 'close' handler has run
    handler,          \* the handler that ran in the last turn of the event loop
    arg,              \* what it was called with: <<>>, or <<x>> for the argument x
    out,              \* what that handler did, in order: sends, adapter calls, warnings
    locals,           \* <<r>>, r the beacon variables that handler had assigned; else <<>>
    threw,            \* that handler ended with an uncaught exception
    statusSurplus     \* history: status messages sent so far by handlers other than
                      \* the timeout callback, minus the start and stop calls issued

vars ==
    <<nobleState, listeners, scanning, pending, adapterScanning, timers, closed,
      handler, arg, out, locals, threw, statusSurplus>>

----------------------------------------------------------------------------
(* Outputs of a handler *)

\* The status message built at lines 96-101, 116-121 and 151-156.
StatusMsg(error, stateChange, state) ==
    [statusUpdate |-> TRUE, error |-> error, stateChange |-> stateChange, state |-> state]

\* node.send(msg)
Send(m) == [op |-> "send", msg |-> m]

\* A call that carries nothing the model reads: noble.startScanning,
\* noble.stopScanning, noble.removeAllListeners, node.warn, node.status.
Call(name) == [op |-> name]

\* The messages a handler has sent, in order.
Sent(o) == SelectSeq(o, LAMBDA e : e.op = "send")

\* The status messages among them (a discovery message has no statusUpdate field).
IsStatus(e) == e.op = "send" /\ "statusUpdate" \in DOMAIN e.msg
StatusSent(o) == SelectSeq(o, IsStatus)

\* How many times a handler made the call `name`.
Calls(o, name) == Len(SelectSeq(o, LAMBDA e : e.op = name))

\* How many calls of the kind `k` wait for their callback.
Outstanding(q, k) == Cardinality({i \in DOMAIN q : q[i] = k})

----------------------------------------------------------------------------
(* The handlers, as functions of the program state.                        *)
(* A state s is the record Cur below: the fields are the variables, with   *)
(* s.out and s.threw those of the handler that is running.                 *)

\* startScan setting the flag when the call is issued, not when it completes.
startScan_SetsFlag(s, stateChange, error) ==
    IF ~s.scanning
    THEN [s EXCEPT
            !.out = @ \o <<Send(StatusMsg(error, stateChange, s.state)),
                           Call("startScanning")>>,
            !.pending = Append(@, "start"),
            !.scanning = TRUE]
    ELSE s

\* startScan without the test of line 94.
startScan_NoGuard(s, stateChange, error) ==
    [s EXCEPT
        !.out = @ \o <<Send(StatusMsg(error, stateChange, s.state)),
                       Call("startScanning")>>,
        !.pending = Append(@, "start")]

\* startScan starting the scan before it sends the status message.
startScan_CallFirst(s, stateChange, error) ==
    IF ~s.scanning
    THEN [s EXCEPT
            !.out = @ \o <<Call("startScanning"),
                           Send(StatusMsg(error, stateChange, s.state))>>,
            !.pending = Append(@, "start")]
    ELSE s

\* startScan(stateChange, error), lines 93-110.  The callback of line 104 is
\* scanStart below: here the call is only queued.
startScan(s, stateChange, error) ==
    IF ~s.scanning
    THEN [s EXCEPT
            !.out = @ \o <<Send(StatusMsg(error, stateChange, s.state)),
                           Call("startScanning")>>,
            !.pending = Append(@, "start")]
    ELSE s

\* stopScan without the test of line 114.
stopScan_NoGuard(s, stateChange, error) ==
    [s EXCEPT
        !.out = @ \o <<Send(StatusMsg(error, stateChange, s.state)),
                       Call("stopScanning")>>
                  \o (IF error THEN <<Call("warn")>> ELSE <<>>),
        !.pending = Append(@, "stop")]

\* stopScan(stateChange, error), lines 113-133.  The callback of line 124 is
\* scanStop below.
stopScan(s, stateChange, error) ==
    IF s.scanning
    THEN [s EXCEPT
            !.out = @ \o <<Send(StatusMsg(error, stateChange, s.state)),
                           Call("stopScanning")>>
                      \o (IF error THEN <<Call("warn")>> ELSE <<>>),
            !.pending = Append(@, "stop")]
    ELSE s

\* The 'stateChange' handler stopping the scan without the error flag.
onStateChange_NoErrorFlag(s, state) ==
    IF state = "poweredOn"
    THEN startScan(s, TRUE, FALSE)
    ELSE IF s.scanning THEN stopScan(s, TRUE, FALSE) ELSE s

\* The 'stateChange' handler reporting every departure from PoweredOn, whether
\* the node scans or not.
onStateChange_ReportAlways(s, state) ==
    IF state = "poweredOn"
    THEN startScan(s, TRUE, FALSE)
    ELSE IF s.scanning
         THEN stopScan(s, TRUE, TRUE)
         ELSE [s EXCEPT !.out = @ \o <<Send(StatusMsg(TRUE, TRUE, s.state))>>]

\* noble.on('stateChange', function(state) ...), lines 136-144.
onStateChange(s, state) ==
    IF state = "poweredOn"
    THEN startScan(s, TRUE, FALSE)
    ELSE IF s.scanning THEN stopScan(s, TRUE, TRUE) ELSE s

\* The constructor sending the "not ready" message at once instead of deferring it.
NobleScan_SendNow(state) ==
    LET s0 == [state |-> state, listeners |-> TRUE, scanning |-> FALSE,
               pending |-> <<>>, timers |-> <<>>, out |-> <<>>, locals |-> <<>>,
               threw |-> FALSE]
    IN  IF state = "poweredOn"
        THEN startScan(s0, FALSE, FALSE)
        ELSE [s0 EXCEPT !.out = @ \o <<Send(StatusMsg(TRUE, FALSE, state)),
                                        Call("warn")>>]

\* The constructor from its first statement to line 164, run with noble.state = state:
\* node.scanning is not set, the two noble listeners are attached, then "start initially".
NobleScan(state) ==
    LET s0 == [state |-> state, listeners |-> TRUE, scanning |-> FALSE,
               pending |-> <<>>, timers |-> <<>>, out |-> <<>>, locals |-> <<>>,
               threw |-> FALSE]
    IN  IF state = "poweredOn"
        THEN startScan(s0, FALSE, FALSE)
        ELSE [s0 EXCEPT !.timers = Append(@, StatusMsg(TRUE, FALSE, state)),
                        !.out = @ \o <<Call("warn")>>]

\* The timeout callback building its message when it runs.
onTimeout_CurrentState(s) ==
    [s EXCEPT !.out = @ \o <<Send(StatusMsg(TRUE, FALSE, s.state))>>,
              !.timers = Tail(@)]

\* The callback of setTimeout, lines 159-161: it sends the message built at
\* construction.  Nothing in the source clears the timeout.
onTimeout(s) ==
    [s EXCEPT !.out = @ \o <<Send(Head(s.timers))>>, !.timers = Tail(@)]

(* External commands.  A JavaScript value is a record with its type tag t;  *)
(* an own property that may be missing is a sequence of length 0 or 1.      *)
JsTrue == [t |-> "boolean", b |-> TRUE]
JsFalse == [t |-> "boolean", b |-> FALSE]
JsString == [t |-> "string"]
JsNumber == [t |-> "number"]
JsNull == [t |-> "null"]
JsObject(scan) == [t |-> "object", scan |-> scan]

\* typeof v: null is an "object".
TypeOf(v) == IF v.t = "null" THEN "object" ELSE v.t

\* v === b for a boolean b.
StrictEq(v, b) == v.t = "boolean" /\ v.b = b

\* The messages the input handler is tried on.
InputMsgs ==
    {[payload |-> <<>>]}
    \cup {[payload |-> <<p>>] : p \in {JsNull, JsString, JsNumber, JsTrue}}
    \cup {[payload |-> <<JsObject(<<>>)>>]}
    \cup {[payload |-> <<JsObject(<<v>>)>>] :
            v \in {JsTrue, JsFalse, JsString, JsNumber, JsNull}}

\* node.on('input', function (msg) ...), lines 167-178.  With payload null the
\* test of line 168 passes typeof and then calls null.hasOwnProperty: a TypeError.
onInput(s, msg) ==
    LET warn == [s EXCEPT !.out = @ \o <<Call("warn")>>]
    IN  IF msg.payload # <<>> /\ TypeOf(msg.payload[1]) = "object"
        THEN IF msg.payload[1].t = "null"
             THEN [s EXCEPT !.threw = TRUE]
             ELSE IF msg.payload[1].scan # <<>>
                  THEN IF StrictEq(msg.payload[1].scan[1], TRUE)
                       THEN startScan(s, FALSE, FALSE)
                       ELSE IF StrictEq(msg.payload[1].scan[1], FALSE)
                            THEN stopScan(s, FALSE, FALSE)
                            ELSE warn
                  ELSE warn
        ELSE warn

\* The 'close' handler without line 187.
onClose_KeepListeners(s) == stopScan(s, FALSE, FALSE)

\* node.on("close", ...), lines 181-188.
onClose(s) ==
    [stopScan(s, FALSE, FALSE) EXCEPT
        !.out = @ \o <<Call("removeAllListeners")>>,
        !.listeners = FALSE]

(* Discovery.  peripheral.manufacturerData is a sequence of length 0 (the   *)
(* property is undefined) or 1 (a Buffer, itself a sequence of bytes).      *)
SampleData ==
    <<76, 0, 2, 21, 1, 2, 3, 4, 5, 6, 7, 8, 9, 10, 11, 12, 13, 14, 15, 16,
      0, 42, 0, 1, 196, 7>>

\* Two more advertisements: high and low nibbles, both bytes of major and minor
\* in use, a positive and the most negative measured power.
SampleData2 ==
    <<76, 0, 2, 21, 171, 205, 239, 0, 255, 16, 1, 128, 127, 9, 154, 90, 15, 240, 99, 200,
      18, 52, 255, 255, 127, 0>>

SampleData3 ==
    <<0, 0, 0, 0, 0, 0, 0, 0, 0, 0, 0, 0, 0, 0, 0, 0, 0, 0, 0, 255,
      255, 0, 1, 0, 128, 255>>

Samples == {SampleData, SampleData2, SampleData3}

DataLengths == {0, BeaconMinLen - 1, BeaconMinLen, BeaconMinLen + 1}

Peripherals ==
    {[uuid |-> "p1", rssi |-> r, manufacturerData |-> md] :
        r \in {0 - 60, 0 - 75},
        md \in {<<>>} \cup {<<SubSeq(d, 1, n)>> : d \in Samples, n \in DataLengths}}

\* The digits of Buffer.toString('hex').
HexDigits ==
    <<"0", "1", "2", "3", "4", "5", "6", "7", "8", "9", "a", "b", "c", "d", "e", "f">>

\* buf.slice(start, end).toString('hex'), line 61: two digits a byte, as a
\* sequence of characters.  Offsets count from 0, as in the source.
sliceToHex(buf, start, end) ==
    [i \in 1..(2 * (end - start)) |->
        LET byte == buf[start + ((i + 1) \div 2)]
        IN  HexDigits[(IF i % 2 = 1 THEN byte \div 16 ELSE byte % 16) + 1]]

\* buf.readUInt16BE(offset) read as little-endian.
readUInt16BE_LittleEndian(buf, offset) == buf[offset + 2] * 256 + buf[offset + 1]

\* buf.readUInt16BE(offset), lines 62-63.
readUInt16BE(buf, offset) == buf[offset + 1] * 256 + buf[offset + 2]

\* buf.readInt8(offset), line 64: the byte if its top bit is clear, else
\* (0xff - byte + 1) * -1.
readInt8(buf, offset) ==
    LET byte == buf[offset + 1]
    IN  IF (byte \div 128) % 2 = 0 THEN byte ELSE (255 - byte + 1) * (0 - 1)

\* Lines 61-64: the variables assigned before line 66 is evaluated.
decode(buf) ==
    [proxUuid |-> sliceToHex(buf, 4, 20),
     major |-> readUInt16BE(buf, 20),
     minor |-> readUInt16BE(buf, 22),
     measuredPower |-> readInt8(buf, 24)]

(* Lines 67-77 on their own.  An accuracy is a whole number of tenths of a   *)
(* metre, so 0.5 is 5 and 4.0 is 40.                                        *)
ImmediateBelow == 5
NearBelow == 40

\* The classification with the bounds taken inclusive.
proximityOf_Inclusive(accuracy) ==
    IF accuracy < 0 THEN "unknown"
    ELSE IF accuracy <= ImmediateBelow THEN "immediate"
    ELSE IF accuracy <= NearBelow THEN "near"
    ELSE "far"

\* The if-chain of lines 69-77.
proximityOf(accuracy) ==
    IF accuracy < 0 THEN "unknown"
    ELSE IF accuracy < ImmediateBelow THEN "immediate"
    ELSE IF accuracy < NearBelow THEN "near"
    ELSE "far"

\* The 'discover' handler reporting only while the node scans.
onDiscover_OnlyWhenScanning(s, peripheral) ==
    LET msg == [peripheralUuid |-> peripheral.uuid, rssi |-> peripheral.rssi]
    IN  IF peripheral.manufacturerData # <<>>
           /\ Len(peripheral.manufacturerData[1]) >= BeaconMinLen
        THEN [s EXCEPT !.locals = <<decode(peripheral.manufacturerData[1])>>,
                       !.threw = TRUE]
        ELSE IF s.scanning THEN [s EXCEPT !.out = @ \o <<Send(msg)>>] ELSE s

\* noble.on('discover', function(peripheral) ...), lines 46-90.  A Buffer is
\* truthy whatever its length.  Line 66 reads `rssi`, a name declared nowhere:
\* evaluating it throws a ReferenceError, so lines 67-89 do not run.
onDiscover(s, peripheral) ==
    LET msg == [peripheralUuid |-> peripheral.uuid, rssi |-> peripheral.rssi]
    IN  IF peripheral.manufacturerData # <<>>
           /\ Len(peripheral.manufacturerData[1]) >= BeaconMinLen
        THEN [s EXCEPT !.locals = <<decode(peripheral.manufacturerData[1])>>,
                       !.threw = TRUE]
        ELSE [s EXCEPT !.out = @ \o <<Send(msg)>>]

----------------------------------------------------------------------------
(* The state machine *)

\* What the outputs o of one handler add to statusSurplus.
Surplus(o) == Len(StatusSent(o)) - Calls(o, "startScanning") - Calls(o, "stopScanning")

\* The program state a handler starts from.
Cur ==
    [state |-> nobleState, listeners |-> listeners, scanning |-> scanning,
     pending |-> pending, timers |-> timers, out |-> <<>>, locals |-> <<>>,
     threw |-> FALSE]

\* The program state the handler h leaves.
Ran(h, a, s) ==
    /\ nobleState' = s.state
    /\ listeners' = s.listeners
    /\ scanning' = s.scanning
    /\ pending' = s.pending
    /\ timers' = s.timers
    /\ out' = s.out
    /\ locals' = s.locals
    /\ threw' = s.threw
    /\ handler' = h
    /\ arg' = a
    /\ statusSurplus' = statusSurplus + (IF h = "timeout" THEN 0 ELSE Surplus(s.out))

\* The state after construction: the adapter is in any of its states.
Init ==
    \E state \in AdapterStates :
        LET s == NobleScan(state)
        IN  /\ nobleState = s.state
            /\ listeners = s.listeners
            /\ scanning = s.scanning
            /\ pending = s.pending
            /\ timers = s.timers
            /\ out = s.out
            /\ locals = s.locals
            /\ threw = s.threw
            /\ handler = "construct"
            /\ arg = <<>>
            /\ adapterScanning = FALSE
            /\ closed = FALSE
            /\ statusSurplus = Surplus(s.out)

\* The adapter changes state: noble stores it and emits 'stateChange' to the
\* listener of line 136, if it is still attached.
StateChange ==
    /\ Len(pending) < MaxPending
    /\ \E state \in AdapterStates :
        IF listeners
        THEN Ran("stateChange", <<state>>,
                 onStateChange([Cur EXCEPT !.state = state], state))
        ELSE Ran("none", <<>>, [Cur EXCEPT !.state = state])
    /\ UNCHANGED <<adapterScanning, closed>>

\* The adapter reports a peripheral: noble emits 'discover' to the listener of
\* line 46, if it is still attached.
Discover ==
    /\ \E peripheral \in Peripherals :
        IF listeners
        THEN Ran("discover", <<peripheral>>, onDiscover(Cur, peripheral))
        ELSE Ran("none", <<>>, Cur)
    /\ UNCHANGED <<adapterScanning, closed>>

\* A message arrives at the node's input; a closed node receives none.
Input ==
    /\ ~closed
    /\ Len(pending) < MaxPending
    /\ \E msg \in InputMsgs : Ran("input", <<msg>>, onInput(Cur, msg))
    /\ UNCHANGED <<adapterScanning, closed>>

\* The timeout of line 159 expires.
Timeout ==
    /\ timers # <<>>
    /\ Ran("timeout", <<>>, onTimeout(Cur))
    /\ UNCHANGED <<adapterScanning, closed>>

\* The runtime closes the node, once.
Close ==
    /\ ~closed
    /\ Len(pending) < MaxPending
    /\ Ran("close", <<>>, onClose(Cur))
    /\ closed' = TRUE
    /\ UNCHANGED adapterScanning

\* The adapter has started scanning: the callback of lines 104-108 runs.
scanStart ==
    /\ pending # <<>> /\ Head(pending) = "start"
    /\ Ran("scanStart", <<>>,
           [Cur EXCEPT !.pending = Tail(@), !.scanning = TRUE,
                       !.out = <<Call("log"), Call("status:started")>>])
    /\ adapterScanning' = TRUE
    /\ UNCHANGED closed

\* The adapter has stopped scanning: the callback of lines 124-128 runs.
scanStop ==
    /\ pending # <<>> /\ Head(pending) = "stop"
    /\ Ran("scanStop", <<>>,
           [Cur EXCEPT !.pending = Tail(@), !.scanning = FALSE,
                       !.out = <<Call("log"), Call("status:stopped")>>])
    /\ adapterScanning' = FALSE
    /\ UNCHANGED closed

Next ==
    \/ StateChange
    \/ Discover
    \/ Input
    \/ Timeout
    \/ Close
    \/ scanStart
    \/ scanStop

Spec == Init /\ [][Next]_vars

\* The adapter completes every call it was given, so every callback runs.
FairSpec == Spec /\ WF_vars(scanStart) /\ WF_vars(scanStop)

\* Largest accuracy, in tenths of a metre, the classification is tried on.
MaxAccuracy == 60

Accuracies == (0 - MaxAccuracy)..MaxAccuracy

\* Lines 67-77 run on an accuracy: in the node line 66 throws before them, so
\* this step is no part of Next; it exercises the classification by itself.
Classify ==
    /\ \E accuracy \in Accuracies :
         locals' = <<[accuracy |-> accuracy, proximity |-> proximityOf(accuracy)]>>
    /\ UNCHANGED <<nobleState, listeners, scanning, pending, adapterScanning, timers,
                   closed, handler, arg, out, threw, statusSurplus>>

\* The classification applied to every accuracy of Accuracies.
ZoneSpec == Init /\ [][Classify]_vars

TypeOK ==
    /\ nobleState \in AdapterStates
    /\ listeners \in BOOLEAN /\ scanning \in BOOLEAN /\ closed \in BOOLEAN
    /\ adapterScanning \in BOOLEAN /\ threw \in BOOLEAN
    /\ Len(pending) <= MaxPending
    /\ \A i \in DOMAIN pending : pending[i] \in {"start", "stop"}
    /\ Len(timers) <= 1
    /\ handler \in {"construct", "stateChange", "discover", "input", "timeout",
                    "close", "scanStart", "scanStop", "none"}

----------------------------------------------------------------------------
(* Scan Controller: start and stop requests *)

\* C1: a start call is never issued while an earlier start call waits for its
\* completion with no stop call between the two: of any two start calls in
\* flight, a stop call was issued between them.
NoSecondStartWhileOutstanding ==
    \A i, j \in DOMAIN pending :
        (i < j /\ pending[i] = "start" /\ pending[j] = "start")
            => \E k \in DOMAIN pending : i < k /\ k < j /\ pending[k] = "stop"

\* The adapter has just left PoweredOn while the controller was Scanning: the
\* 'stateChange' handler sent the error-flagged status message of a stop.
ErrorStopped ==
    /\ handler = "stateChange"
    /\ \E i \in DOMAIN out : IsStatus(out[i]) /\ out[i].msg.error

\* The 'stateChange' handler has just run for PoweredOn.
PoweredOnAgain == handler = "stateChange" /\ nobleState = "poweredOn"

\* The controller is Scanning and no stop call is in flight.
ScanningAgain == scanning /\ Outstanding(pending, "stop") = 0

\* Something else ended the scan since: the adapter left PoweredOn again, the
\* node was closed, or a 'scan off' command issued a stop call.
Disturbed ==
    \/ nobleState # "poweredOn"
    \/ closed
    \/ handler = "input" /\ Calls(out, "stopScanning") > 0

\* C2: after an error-flagged stop, whenever the adapter returns to PoweredOn
\* the controller eventually is Scanning again (unless the adapter leaves
\* PoweredOn again, the node is closed or a command stops the scan), given that
\* every adapter call completes.
ResumesAfterErrorStop ==
    [](ErrorStopped => [](PoweredOnAgain => <>(ScanningAgain \/ Disturbed)))

\* C3: once the node is closed and every adapter call has completed, the
\* controller is Stopped and the adapter is not scanning.
ShutdownLeavesStopped ==
    (closed /\ pending = <<>>) => (~scanning /\ ~adapterScanning)

\* C4: the timeout callback sends no status message once the node is closed.
TimerCancelledByShutdown ==
    (closed /\ handler = "timeout") => StatusSent(out) = <<>>

\* C5: a handler calls noble.startScanning only when node.scanning is false and
\* noble.stopScanning only when it is true, the constructor included.
CallsOnlyInMatchingState ==
    /\ [](handler = "construct" /\ Calls(out, "startScanning") > 0 => ~scanning)
    /\ [][/\ Calls(out', "startScanning") > 0 => ~scanning
          /\ Calls(out', "stopScanning") > 0 => scanning]_vars

\* A 'scan off' command has issued a stop call while Scanning, after a start
\* call was issued while Stopped and completed.
StopIssuedWhileScanning ==
    /\ handler = "input"
    /\ Calls(out, "stopScanning") = 1
    /\ scanning /\ adapterScanning

----------------------------------------------------------------------------
(* Shutdown, adapter notifications, commands, discovery, startup *)

\* C6: the 'close' handler issues exactly one stop call when node.scanning is
\* true and none when it is false, detaches the noble listeners in both cases,
\* and no 'stateChange' or 'discover' handler runs once the node is closed.
ShutdownStopsOnceAndDetaches ==
    /\ [][(~closed /\ closed') =>
            /\ Calls(out', "stopScanning") = (IF scanning THEN 1 ELSE 0)
            /\ Calls(out', "removeAllListeners") = 1
            /\ ~listeners']_vars
    /\ [](closed => handler \notin {"stateChange", "discover"})

\* The node was closed while Scanning: one stop call, listeners detached.
ClosedWhileScanning ==
    /\ handler = "close"
    /\ scanning
    /\ Calls(out, "stopScanning") = 1
    /\ ~listeners

\* C7: the 'stateChange' handler run for a state other than PoweredOn while
\* node.scanning is false sends nothing, calls nothing and changes neither
\* node.scanning nor the calls in flight.
DepartureWhileStoppedIsSilent ==
    [][(handler' = "stateChange" /\ nobleState' # "poweredOn" /\ ~scanning) =>
            /\ out' = <<>>
            /\ scanning' = scanning
            /\ pending' = pending
            /\ ~threw']_vars

\* The adapter has reported a state other than PoweredOn to a Stopped node.
DepartureWhileStopped ==
    /\ handler = "stateChange"
    /\ nobleState # "poweredOn"
    /\ ~scanning
    /\ Outstanding(pending, "stop") = 0

\* A command is 'scan on' or 'scan off': an object payload whose own property
\* scan is the boolean true or false.
ValidCommand(msg) ==
    /\ msg.payload # <<>>
    /\ msg.payload[1].t = "object"
    /\ msg.payload[1].scan # <<>>
    /\ msg.payload[1].scan[1].t = "boolean"

\* C8: the 'input' handler run on anything but 'scan on' or 'scan off' warns
\* once and does nothing else: no message sent, no adapter call, no exception,
\* node.scanning as it was.
InvalidCommandIsRejectedWithWarning ==
    [][(handler' = "input" /\ ~ValidCommand(arg'[1])) =>
            /\ out' = <<Call("warn")>>
            /\ ~threw'
            /\ scanning' = scanning
            /\ pending' = pending]_vars

\* C9: the 'discover' handler sends exactly one message, whatever the
\* manufacturer data, and does not fail.
EveryDiscoveryIsEmitted ==
    handler = "discover" => (Len(Sent(out)) = 1 /\ ~threw)

\* C10: constructed with the adapter PoweredOn, the node has sent the one status
\* message (stateChange false, error false) and issued the start call, with no
\* timeout set; constructed otherwise it has sent nothing, issued no call and set
\* the timeout.  The status message with error true and stateChange false is
\* sent by the timeout callback and by nothing else.
StartupPolicy ==
    /\ handler = "construct" =>
         IF nobleState = "poweredOn"
         THEN /\ out = <<Send(StatusMsg(FALSE, FALSE, "poweredOn")),
                         Call("startScanning")>>
              /\ pending = <<"start">>
              /\ timers = <<>>
         ELSE /\ Sent(out) = <<>>
              /\ Calls(out, "startScanning") = 0
              /\ pending = <<>>
              /\ Len(timers) = 1
    /\ handler = "timeout" =>
         /\ Len(out) = 1
         /\ IsStatus(out[1]) /\ out[1].msg.error /\ ~out[1].msg.stateChange
    /\ \A i \in DOMAIN out :
         (IsStatus(out[i]) /\ out[i].msg.error /\ ~out[i].msg.stateChange)
            => handler = "timeout"

\* The timeout set at construction has expired and its message was sent.
DelayedStatusSent == handler = "timeout" /\ Len(StatusSent(out)) = 1

----------------------------------------------------------------------------
(* Status messages of the start and stop transitions *)

\* The handler ran because the adapter reported a state.
ByAdapter == handler = "stateChange"

\* C11: the status message sent before a stop call has error and stateChange
\* both true when the 'stateChange' handler sent it and both false when the
\* 'input' or 'close' handler did; the one sent before a start call has error
\* false and stateChange true exactly when the 'stateChange' handler sent it;
\* each carries noble.state as it is when the message is sent.
StatusFlagsFollowTrigger ==
    \A i \in DOMAIN out :
        (IsStatus(out[i]) /\ handler # "timeout") =>
            /\ i < Len(out)
            /\ out[i].msg.state = nobleState
            /\ out[i + 1].op = "stopScanning" =>
                 /\ out[i].msg.error = ByAdapter
                 /\ out[i].msg.stateChange = ByAdapter
                 /\ handler \in {"stateChange", "input", "close"}
            /\ out[i + 1].op = "startScanning" =>
                 /\ out[i].msg.error = FALSE
                 /\ out[i].msg.stateChange = ByAdapter
                 /\ handler \in {"stateChange", "input", "construct"}
            /\ out[i + 1].op \in {"stopScanning", "startScanning"}

\* The adapter left PoweredOn while the node was Scanning and the stop was
\* reported with both flags set and the new adapter state.
ErrorStopReported ==
    /\ handler = "stateChange"
    /\ Len(out) >= 2
    /\ out[2].op = "stopScanning"
    /\ out[1].msg = StatusMsg(TRUE, TRUE, nobleState)
    /\ nobleState # "poweredOn"

----------------------------------------------------------------------------
(* Discovery: payload decoder and proximity estimator *)

\* The 'discover' handler has just run on manufacturer data of at least 25 bytes.
BeaconDiscovered ==
    /\ handler = "discover"
    /\ arg[1].manufacturerData # <<>>
    /\ Len(arg[1].manufacturerData[1]) >= BeaconMinLen

\* The fields lines 79-84 attach to a message.
BeaconFieldNames ==
    {"manufacturerUuid", "major", "minor", "measuredPower", "accuracy", "proximity"}

\* C12: the message sent for a discovery carries the beacon fields and the
\* proximity estimate when the manufacturer data has 25 bytes or more, and none
\* of them when it is absent or shorter.
BeaconFieldsIffLongEnough ==
    handler = "discover" =>
        /\ Len(Sent(out)) = 1
        /\ IF BeaconDiscovered
           THEN BeaconFieldNames \subseteq DOMAIN Sent(out)[1].msg
           ELSE BeaconFieldNames \cap DOMAIN Sent(out)[1].msg = {}

\* The value of a hexadecimal digit.
HexValue(c) == CHOOSE d \in 0..15 : HexDigits[d + 1] = c

\* The proximity UUID of the advertisement SampleData.
SampleUuid ==
    <<"0", "1", "0", "2", "0", "3", "0", "4", "0", "5", "0", "6", "0", "7", "0", "8",
      "0", "9", "0", "a", "0", "b", "0", "c", "0", "d", "0", "e", "0", "f", "1", "0">>

\* C13: from manufacturer data of at least 25 bytes the handler reads the
\* proximity UUID as the 16 bytes at offsets 4..19 in order (two hex digits
\* each), major and minor as the big-endian 16-bit numbers at offsets 20 and 22,
\* both in 0..65535, and the measured power as the byte at offset 24 taken as a
\* signed 8-bit number; the bytes 00 2A, 00 01, C4 give 42, 1 and -60.
DecoderReadsFields ==
    BeaconDiscovered =>
        LET buf == arg[1].manufacturerData[1]
        IN  /\ Len(locals) = 1
            /\ Len(locals[1].proxUuid) = 32
            /\ \A k \in 0..15 :
                 16 * HexValue(locals[1].proxUuid[2 * k + 1])
                    + HexValue(locals[1].proxUuid[2 * k + 2]) = buf[5 + k]
            /\ locals[1].major \in 0..65535
            /\ locals[1].major \div 256 = buf[21] /\ locals[1].major % 256 = buf[22]
            /\ locals[1].minor \in 0..65535
            /\ locals[1].minor \div 256 = buf[23] /\ locals[1].minor % 256 = buf[24]
            /\ locals[1].measuredPower =
                 (IF buf[25] >= 128 THEN buf[25] - 256 ELSE buf[25])
            /\ SubSeq(buf, 1, 25) = SubSeq(SampleData, 1, 25) =>
                 /\ locals[1].proxUuid = SampleUuid
                 /\ locals[1].major = 42
                 /\ locals[1].minor = 1
                 /\ locals[1].measuredPower = 0 - 60

\* The advertisement SampleData2 was decoded: major 0x1234, minor 0xFFFF and a
\* positive measured power.
SecondSampleDecoded ==
    /\ BeaconDiscovered
    /\ Len(locals) = 1
    /\ locals[1].major = 4660
    /\ locals[1].minor = 65535
    /\ locals[1].measuredPower = 127

\* C14: for a beacon whose RSSI equals its measured power the ratio is 1, so the
\* message sent carries accuracy 12.0 * 1^1.5 = 12.0 and the zone Far.
EstimateFromRatio ==
    (BeaconDiscovered /\ arg[1].rssi = readInt8(arg[1].manufacturerData[1], 24)) =>
        /\ Len(Sent(out)) = 1
        /\ {"accuracy", "proximity"} \subseteq DOMAIN Sent(out)[1].msg
        /\ Sent(out)[1].msg.accuracy = 12
        /\ Sent(out)[1].msg.proximity = "far"

\* C15: the zone is Unknown for an accuracy below 0, Immediate from 0 to below
\* 0.5, Near from 0.5 to below 4.0 and Far from 4.0 on: exactly 0.5 is Near,
\* exactly 4.0 is Far, and every accuracy has exactly one zone.
ZoneThresholds ==
    locals # <<>> =>
        LET a == locals[1].accuracy
            z == locals[1].proximity
        IN  /\ z \in {"unknown", "immediate", "near", "far"}
            /\ z = "unknown" <=> a < 0
            /\ z = "immediate" <=> (0 <= a /\ a < 5)
            /\ z = "near" <=> (5 <= a /\ a < 40)
            /\ z = "far" <=> 40 <= a
            /\ a = 5 => z = "near"
            /\ a = 40 => z = "far"

\* An accuracy of exactly 0.5 was classified.
HalfMetreClassified == locals # <<>> /\ locals[1].accuracy = 5 /\ locals[1].proximity = "near"

----------------------------------------------------------------------------
(* node.scanning and the requests *)

\* C16: node.scanning becomes true only in the callback of noble.startScanning
\* and false only in the callback of noble.stopScanning; no other handler
\* changes it, and the constructor leaves it unset.
FlagChangesOnlyOnCompletion ==
    /\ [](handler = "construct" => ~scanning)
    /\ [][/\ (~scanning /\ scanning') => handler' = "scanStart"
          /\ (scanning /\ ~scanning') => handler' = "scanStop"
          /\ handler' \notin {"scanStart", "scanStop"} => scanning' = scanning]_vars

\* A start call has completed with no other call in flight: the flag is set.
StartConfirmed == handler = "scanStart" /\ scanning /\ pending = <<>>

\* The last handler ran on a request to start: a 'scan on' command or the
\* adapter reporting PoweredOn.
StartRequested ==
    \/ /\ handler = "input"
       /\ ValidCommand(arg[1])
       /\ arg[1].payload[1].scan[1].b
    \/ /\ handler = "stateChange"
       /\ nobleState = "poweredOn"

\* The last handler ran on a 'scan off' command.
StopCommanded ==
    /\ handler = "input"
    /\ ValidCommand(arg[1])
    /\ ~arg[1].payload[1].scan[1].b

\* C17: a start request handled while node.scanning is true sends nothing,
\* calls nothing and leaves the flag true; a 'scan off' command handled while
\* node.scanning is false sends nothing and calls nothing.
RequestsAreIdempotent ==
    /\ [][(StartRequested' /\ scanning) =>
            /\ out' = <<>>
            /\ scanning'
            /\ pending' = pending]_vars
    /\ [][(StopCommanded' /\ ~scanning) =>
            /\ out' = <<>>
            /\ ~scanning'
            /\ pending' = pending]_vars

\* A 'scan on' command was handled while the node was Scanning.
ScanOnWhileScanning ==
    /\ handler = "input"
    /\ ValidCommand(arg[1])
    /\ arg[1].payload[1].scan[1].b
    /\ scanning
    /\ out = <<>>

\* An entry of out is a call that starts or stops the scan.
IsScanCall(e) == e.op \in {"startScanning", "stopScanning"}

\* C18: as many status messages have been sent by the start and stop
\* transitions as start and stop calls have been issued; a handler sends each
\* such message right before its call, and issues no call without it; the
\* timeout callback sends one status message with no call, and runs at most once.
StatusPairedWithCall ==
    /\ [](statusSurplus = 0)
    /\ [](\A i \in DOMAIN out :
            (IsStatus(out[i]) /\ handler # "timeout") =>
                (i < Len(out) /\ IsScanCall(out[i + 1])))
    /\ [](\A i \in DOMAIN out :
            IsScanCall(out[i]) => (i > 1 /\ IsStatus(out[i - 1])))
    /\ [](handler = "timeout" => (Len(out) = 1 /\ IsStatus(out[1])))
    /\ [](Len(timers) <= 1)
    /\ [][Len(timers') <= Len(timers)]_vars

\* The delayed message was sent, with no call, after calls had been issued each
\* with its own status message.
DelayedSentAfterCalls ==
    /\ handler = "timeout"
    /\ Len(out) = 1
    /\ Len(pending) >= 2
    /\ statusSurplus = 0

\* C19: the timeout callback sends exactly the message built at construction,
\* which carries the adapter state read then, and nothing but the callback
\* takes the message away: it is sent once, whatever happened since.
DelayedStatusIsTheOneBuiltAtConstruction ==
    /\ []((handler = "construct" /\ timers # <<>>) =>
            timers = <<StatusMsg(TRUE, FALSE, nobleState)>>)
    /\ [][handler' = "timeout" =>
            (out' = <<Send(Head(timers))>> /\ timers' = <<>>)]_vars
    /\ [][timers' # timers => handler' = "timeout"]_vars

\* The delayed message was sent after the adapter had reached PoweredOn and the
\* scan had started: it still names the adapter state of construction.
DelayedStatusIsStale ==
    /\ handler = "timeout"
    /\ nobleState = "poweredOn"
    /\ scanning
    /\ out[1].msg.state # "poweredOn"

\* C20: the 'discover' handler does what it would do with node.scanning the
\* other way round, changes neither the flag nor the calls in flight nor the
\* timeout, calls neither noble.startScanning nor noble.stopScanning and sends
\* no status message.
DiscoveryIgnoresScanState ==
    [][handler' = "discover" =>
         LET other == onDiscover([Cur EXCEPT !.scanning = ~scanning], arg'[1])
         IN  /\ out' = other.out
             /\ threw' = other.threw
             /\ locals' = other.locals
             /\ scanning' = scanning
             /\ pending' = pending
             /\ timers' = timers
             /\ adapterScanning' = adapterScanning
             /\ StatusSent(out') = <<>>
             /\ \A i \in DOMAIN out' : ~IsScanCall(out'[i])]_vars

\* A discovery was reported while the node was Stopped with the adapter off.
DiscoveredWhileStopped ==
    /\ handler = "discover"
    /\ ~scanning /\ ~adapterScanning
    /\ nobleState = "poweredOff"
    /\ Len(Sent(out)) = 1

====
